---- MODULE Spec2Model ----
(***************************************************************************)
(* Model of neuropod's PythonBridge backend                                *)
(* (source/neuropod/backends/python_bridge/python_bridge.cc).              *)
(*                                                                         *)
(* The process runs the static initialiser `gil_release =                  *)
(* maybe_initialize()` once, then caller-owned threads construct and       *)
(* destroy bridges, build sealed maps and run inference.  The GIL is a     *)
(* re-entrant process-wide lock (py::gil_scoped_acquire); every statement  *)
(* of the source that can block, throw or touch an interpreter object is   *)
(* one step of the calling thread.                                         *)
(***************************************************************************)
EXTENDS Integers, Sequences, FiniteSets, TLC

\* ---------------------------------------------------------------- bounds
NumThreads == 2
NumBridges == 2
NumMaps    == 1
MaxSeals   == 2
MaxCalls   == 4

Threads == 1 .. NumThreads
Bridges == 1 .. NumBridges
Maps    == 1 .. NumMaps

\* The thread that runs the static initialisers of the shared library.
MainThread == 1

\* Tensor names and element types the callers pass in.
Names     == {"x", "y"}
Dtypes    == {"float32", "unknown"}
\* The k-th seal call of a run passes a tensor holding k, of either type.
Tensors(k) == [dtype : Dtypes, data : {k}]

\* python_path_additions of the b-th bridge that is constructed: one
\* directory for odd b, two for even b.
PathsOf(b) == IF b % 2 = 1 THEN << <<"a">> >> ELSE << <<"b">>, <<"c">> >>

\* Objects are numbered in the order their construction starts.
NextFresh(state, S) == {x \in S : state[x] = "none" /\
                                   \A y \in S : y < x => state[y] # "none"}

VARIABLES
    initState,      \* "pending" | "done" | "aborted": static initialisation
    hosted,         \* the process was already running the interpreter
    pyInitialized,  \* Py_IsInitialized()
    interpStarts,   \* number of times the interpreter was started
    libpython,      \* "untried", or what dlopen(..., RTLD_NOLOAD) returned
    VIRTUAL_ENV,    \* environment variable: set or not
    PYTHONHOME,     \* environment variable
    PYTHONPATH,     \* environment variable: [set, val]
    gil_release,    \* the static unique_ptr<py::gil_scoped_release>
    gilHold,        \* per thread: nesting depth of its hold on the GIL
    pc,             \* per thread: position in the operation it runs
    self,           \* per thread: [b, m, name, item, id, paths] of the call
    existing,       \* per thread: result of getenv in set_python_path
    load_neuropod,  \* per thread: the constructor's local py::object
    outputs,        \* per thread: infer_internal's local py::dicts
    err,            \* per thread: the exception its last call surfaced
    bstate,         \* per bridge: lifetime of the C++ object
    neuropod_,      \* per bridge: unique_ptr<py::object> member
    maybe_convert_bindings_types_,  \* per bridge: unique_ptr<py::object>
    mstate,         \* per map: lifetime of the SealedPythonValueMap
    out,            \* per map: the py::dict, a set of [name, arr]
    handed,         \* per map: the number of seal calls made before it
                    \* was first passed to infer_internal, or -1
    ncalls,         \* number of calls into the component made so far
    nseals,         \* number of seal calls made so far
    acq,            \* per bridge: handles stored, per member
    rel,            \* per bridge: handles released, per member
    handleLog,      \* per bridge: members stored and released, in order
    sealLog,        \* per map: successful seal calls, in order
    arrReleased,    \* per numpy array: times a map dropped its reference
    applied,        \* path lists installed by set_python_path, in order
    staleWrite,     \* some setenv overwrote a value its getenv had not seen
    origPath,       \* PYTHONPATH at process start
    unlocked,       \* interpreter objects touched without the GIL: sites
    fault           \* "none", or the site of a data race that crashed

vars == << initState, hosted, pyInitialized, interpStarts, libpython,
           VIRTUAL_ENV,
           PYTHONHOME, PYTHONPATH, gil_release, gilHold, pc, self, existing,
           load_neuropod, outputs, err, bstate, neuropod_,
           maybe_convert_bindings_types_, mstate, out, handed, ncalls,
           nseals, acq, rel, handleLog, sealLog, arrReleased, applied, staleWrite, origPath,
           unlocked, fault >>

envVars  == << VIRTUAL_ENV, PYTHONHOME >>
initVars == << initState, hosted, pyInitialized, interpStarts, libpython,
              gil_release >>
pathVars == << PYTHONPATH, existing, applied, staleWrite, origPath >>
brVars   == << bstate, neuropod_, maybe_convert_bindings_types_, acq, rel,
              handleLog >>
mapVars  == << mstate, out, handed, sealLog, arrReleased >>
cntVars  == << ncalls, nseals >>
ubVars   == << unlocked, fault >>

NoEnv   == [set |-> FALSE, val |-> << >>]

\* The environments the process is started in: a bare one, and a
\* virtualenv with a search path already set.
Environments ==
    { [VIRTUAL_ENV |-> FALSE, PYTHONPATH |-> NoEnv],
      [VIRTUAL_ENV |-> TRUE,  PYTHONPATH |-> [set |-> TRUE, val |-> <<"o">>]] }
NoCall  == [b |-> 0, m |-> 0, name |-> "", item |-> [dtype |-> "", data |-> 0],
            id |-> 0, paths |-> << >>]
NoOutputs == [raw |-> "null", coerced |-> "null"]
NoCounts  == [conv |-> 0, model |-> 0]
NoLog     == [acquired |-> << >>, released |-> << >>]

\* ------------------------------------------------------------------- GIL
\* py::gil_scoped_acquire can take the lock when no other thread holds it.
GilFree(t) == \A u \in Threads \ {t} : gilHold[u] = 0

HoldsGil(t) == gilHold[t] > 0

\* Faulty variant: an acquire that does not wait for the holder.
GilAcquire_NoWait(t) == gilHold' = [gilHold EXCEPT ![t] = @ + 1]

\* py::gil_scoped_acquire gil;  (re-entrant in the holding thread)
GilAcquire(t) ==
    /\ GilFree(t)
    /\ gilHold' = [gilHold EXCEPT ![t] = @ + 1]

\* Faulty variant: leaving the scope does not give the lock back.
GilRelease_KeepsHold(t) == UNCHANGED gilHold

\* ~gil_scoped_acquire at scope exit, normal or by exception
GilRelease(t) == gilHold' = [gilHold EXCEPT ![t] = @ - 1]

\* The hold a thread has when it is not inside any call of this component.
BaseHold(t) == IF hosted /\ t = MainThread THEN 1 ELSE 0

\* Thread t touches interpreter objects at `sites`.  Without the GIL this
\* is recorded; when another thread is inside the interpreter at that
\* moment it is a data race, whose outcome is either benign or a crash.
Touch(t, sites) ==
    /\ unlocked' = IF HoldsGil(t) THEN unlocked ELSE unlocked \cup sites
    /\ \/ fault' = fault
       \/ /\ ~HoldsGil(t)
          /\ \E u \in Threads \ {t} : HoldsGil(u)
          /\ \E s \in sites : fault' = s

Running == initState = "done" /\ fault = "none"

\* ------------------------------------------------------------------ Init
Init ==
    /\ initState = "pending"
    /\ hosted \in BOOLEAN
    /\ pyInitialized = hosted
    /\ interpStarts = IF hosted THEN 1 ELSE 0
    /\ libpython = "untried"
    /\ \E e \in Environments :
          /\ VIRTUAL_ENV = e.VIRTUAL_ENV
          /\ PYTHONPATH = e.PYTHONPATH
    /\ PYTHONHOME = "unset"
    /\ origPath = PYTHONPATH
    /\ gil_release = "null"
    /\ gilHold = [t \in Threads |-> IF hosted /\ t = MainThread THEN 1 ELSE 0]
    /\ pc = [t \in Threads |-> "idle"]
    /\ self = [t \in Threads |-> NoCall]
    /\ existing = [t \in Threads |-> NoEnv]
    /\ load_neuropod = [t \in Threads |-> "null"]
    /\ outputs = [t \in Threads |-> NoOutputs]
    /\ err = [t \in Threads |-> "none"]
    /\ bstate = [b \in Bridges |-> "none"]
    /\ neuropod_ = [b \in Bridges |-> "null"]
    /\ maybe_convert_bindings_types_ = [b \in Bridges |-> "null"]
    /\ mstate = [m \in Maps |-> "none"]
    /\ out = [m \in Maps |-> {}]
    /\ handed = [m \in Maps |-> -1]
    /\ ncalls = 0
    /\ nseals = 0
    /\ acq = [b \in Bridges |-> NoCounts]
    /\ rel = [b \in Bridges |-> NoCounts]
    /\ handleLog = [b \in Bridges |-> NoLog]
    /\ sealLog = [m \in Maps |-> << >>]
    /\ arrReleased = [i \in 1..MaxSeals |-> 0]
    /\ applied = << >>
    /\ staleWrite = FALSE
    /\ unlocked = {}
    /\ fault = "none"

\* ----------------------------------------------------- maybe_initialize
\* NEUROPOD_ERROR(...) raises; in a static initialiser nothing catches it
\* and the process stops.
NEUROPOD_ERROR == initState' = "aborted"

\* Faulty variant: maybe_initialize starts the interpreter and returns no
\* gil_scoped_release, so the starting thread keeps the GIL.
StartInterpreter_KeepsGil(promoted, stop) ==
    /\ libpython' = IF promoted THEN "handle" ELSE "null"
    /\ IF ~promoted /\ stop
      THEN /\ NEUROPOD_ERROR
           /\ UNCHANGED << pyInitialized, interpStarts, PYTHONHOME,
                           gil_release, gilHold >>
      ELSE /\ PYTHONHOME' = IF VIRTUAL_ENV THEN "venv" ELSE PYTHONHOME
           /\ pyInitialized' = TRUE
           /\ interpStarts' = interpStarts + 1
           /\ gilHold' = [gilHold EXCEPT ![MainThread] = @ + 1]
           /\ initState' = "done"
           /\ UNCHANGED gil_release

\* The steps of maybe_initialize after the Py_IsInitialized() test.
\* `promoted` is the result of dlopen(PYTHON_LIB_NAME, ... RTLD_NOLOAD);
\* `stop` is whether the error of a failed promotion ends the function.
StartInterpreter(promoted, stop) ==
    /\ libpython' = IF promoted THEN "handle" ELSE "null"
    /\ IF ~promoted /\ stop
      THEN /\ NEUROPOD_ERROR
           /\ UNCHANGED << pyInitialized, interpStarts, PYTHONHOME,
                           gil_release, gilHold >>
      ELSE /\ PYTHONHOME' = IF VIRTUAL_ENV THEN "venv" ELSE PYTHONHOME
           \* py::initialize_interpreter() leaves the caller holding the
           \* GIL; the gil_scoped_release that is returned drops it.
           /\ pyInitialized' = TRUE
           /\ interpStarts' = interpStarts + 1
           /\ gil_release' = "token"
           /\ gilHold' = [gilHold EXCEPT ![MainThread] = (@ + 1) - 1]
           /\ initState' = "done"

StaticFrame ==
    UNCHANGED << hosted, VIRTUAL_ENV, pathVars, pc, self, load_neuropod,
                 outputs, err, brVars, mapVars, cntVars, ubVars >>

\* Faulty variant: no Py_IsInitialized() test.
maybe_initialize_NoTest(promoted) ==
    /\ initState = "pending"
    /\ StartInterpreter(promoted, TRUE)
    /\ StaticFrame

\* Faulty variant: a failed promotion is reported and startup carries on.
maybe_initialize_BestEffort(promoted) ==
    /\ initState = "pending"
    /\ IF pyInitialized
         THEN /\ initState' = "done"
              /\ UNCHANGED << pyInitialized, interpStarts, libpython,
                              PYTHONHOME, gil_release, gilHold >>
         ELSE StartInterpreter(promoted, FALSE)
    /\ StaticFrame

\* Faulty variant: PYTHONHOME is pointed at the virtualenv before the
\* Py_IsInitialized() test.
maybe_initialize_HomeFirst(promoted) ==
    /\ initState = "pending"
    /\ IF pyInitialized
         THEN /\ initState' = "done"
              /\ PYTHONHOME' = IF VIRTUAL_ENV THEN "venv" ELSE PYTHONHOME
              /\ UNCHANGED << pyInitialized, interpStarts, libpython,
                              gil_release, gilHold >>
         ELSE StartInterpreter(promoted, TRUE)
    /\ StaticFrame

\* static auto gil_release = maybe_initialize();
maybe_initialize(promoted) ==
    /\ initState = "pending"
    /\ IF pyInitialized
         THEN \* return nullptr
              /\ initState' = "done"
              /\ UNCHANGED << pyInitialized, interpStarts, libpython,
                              PYTHONHOME, gil_release, gilHold >>
         ELSE StartInterpreter(promoted, TRUE)
    /\ StaticFrame

StaticInit == \E promoted \in BOOLEAN : maybe_initialize(promoted)

\* ------------------------------------------------------- set_python_path
\* The characters of a directory list, each directory followed by ":".
RECURSIVE JoinPaths(_)
JoinPaths(paths) ==
    IF paths = << >> THEN << >>
    ELSE Head(paths) \o <<":">> \o JoinPaths(Tail(paths))

\* Faulty variant: the new value is built from the additions alone.
PythonPathValue_DropsExisting(paths, old) == JoinPaths(paths)

\* python_path << dir << ":" ... ; if (existing) python_path << existing;
PythonPathValue(paths, old) ==
    JoinPaths(paths) \o (IF old.set THEN old.val ELSE << >>)

Goto(t, where) == pc' = [pc EXCEPT ![t] = where]

\* Caller threads are interchangeable: of the idle threads in the same
\* condition, the lowest-numbered one makes the next call.
FirstOfItsKind(t) ==
    \A u \in Threads :
        u < t => ~(/\ pc[u] = "idle"
                   /\ err[u] = err[t]
                   /\ BaseHold(u) = BaseHold(t))

\* An idle caller thread makes its next call into the component.
Call(t) ==
    /\ Running
    /\ pc[t] = "idle"
    /\ ncalls < MaxCalls
    /\ ncalls' = ncalls + 1
    /\ FirstOfItsKind(t)

\* A caller starts constructing bridge b: PythonBridge::PythonBridge runs
\* set_python_path up to and including its getenv("PYTHONPATH").
set_python_path_getenv(t, b, paths) ==
    /\ Call(t)
    /\ b \in NextFresh(bstate, Bridges)
    /\ bstate' = [bstate EXCEPT ![b] = "constructing"]
    /\ self' = [self EXCEPT ![t] = [NoCall EXCEPT !.b = b, !.paths = paths]]
    /\ existing' = [existing EXCEPT ![t] = PYTHONPATH]
    /\ err' = [err EXCEPT ![t] = "none"]
    /\ Goto(t, "setenv")
    /\ UNCHANGED << envVars, initVars, PYTHONPATH, applied, staleWrite,
                    origPath, gilHold, load_neuropod, outputs, neuropod_,
                    maybe_convert_bindings_types_, acq, rel, handleLog,
                    mapVars, nseals, ubVars >>

\* setenv("PYTHONPATH", python_path.str().c_str(), 1);
set_python_path_setenv(t) ==
    /\ Running
    /\ pc[t] = "setenv"
    /\ PYTHONPATH' = [set |-> TRUE,
                      val |-> PythonPathValue(self[t].paths, existing[t])]
    /\ applied' = Append(applied, self[t].paths)
    /\ staleWrite' = (staleWrite \/ existing[t] # PYTHONPATH)
    /\ existing' = [existing EXCEPT ![t] = NoEnv]
    /\ Goto(t, "ctor_gil")
    /\ UNCHANGED << envVars, initVars, origPath, gilHold, self,
                    load_neuropod, outputs, err, brVars, mapVars, cntVars,
                    ubVars >>

\* ------------------------------------------- PythonBridge::PythonBridge
\* py::gil_scoped_acquire gil;
ctor_gil_acquire(t) ==
    /\ Running
    /\ pc[t] = "ctor_gil"
    /\ GilAcquire(t)
    /\ Goto(t, "ctor_import_loader")
    /\ UNCHANGED << envVars, initVars, pathVars, self, load_neuropod,
                    outputs, err, brVars, mapVars, cntVars, ubVars >>

\* A statement of the constructor raised: leave the body by exception.
ctor_throw(t) ==
    /\ Goto(t, "ctor_unwind")
    /\ err' = [err EXCEPT ![t] = "ModelLoadFailure"]

\* py::object load_neuropod = py::module::import("neuropod.loader")...
ctor_import_loader(t, ok) ==
    /\ Running
    /\ pc[t] = "ctor_import_loader"
    /\ IF ok
         THEN /\ load_neuropod' = [load_neuropod EXCEPT ![t] = "load_neuropod"]
              /\ Touch(t, {"ctor:load_neuropod:create"})
              /\ Goto(t, "ctor_import_dtype_utils")
              /\ UNCHANGED err
         ELSE /\ ctor_throw(t)
              /\ UNCHANGED << load_neuropod, ubVars >>
    /\ UNCHANGED << envVars, initVars, pathVars, gilHold, self, outputs,
                    brVars, mapVars, cntVars >>

\* maybe_convert_bindings_types_ = make_unique<py::object>(import(...).attr(...))
ctor_import_dtype_utils(t, ok) ==
    /\ Running
    /\ pc[t] = "ctor_import_dtype_utils"
    /\ IF ok
         THEN /\ maybe_convert_bindings_types_' =
                    [maybe_convert_bindings_types_ EXCEPT ![self[t].b] =
                        "maybe_convert_bindings_types"]
              /\ acq' = [acq EXCEPT ![self[t].b].conv = @ + 1]
              /\ handleLog' = [handleLog EXCEPT ![self[t].b].acquired =
                                  Append(@, "conv")]
              /\ Touch(t, {"ctor:maybe_convert_bindings_types_:create"})
              /\ Goto(t, "ctor_ensure_local")
              /\ UNCHANGED err
         ELSE /\ ctor_throw(t)
              /\ UNCHANGED << maybe_convert_bindings_types_, acq, handleLog,
                              ubVars >>
    /\ UNCHANGED << envVars, initVars, pathVars, gilHold, self,
                    load_neuropod, outputs, bstate, neuropod_, rel, mapVars,
                    cntVars >>

\* Faulty variant: the lock is given up for the duration of ensure_local
\* and the rest of the constructor runs without it.
ctor_ensure_local_DropsGil(t, ok) ==
    /\ Running
    /\ pc[t] = "ctor_ensure_local"
    /\ GilRelease(t)
    /\ IF ok
         THEN Goto(t, "ctor_load") /\ UNCHANGED err
         ELSE ctor_throw(t)
    /\ UNCHANGED << envVars, initVars, pathVars, self,
                    load_neuropod, outputs, brVars, mapVars, cntVars,
                    ubVars >>

\* const auto local_path = loader_->ensure_local();
ctor_ensure_local(t, ok) ==
    /\ Running
    /\ pc[t] = "ctor_ensure_local"
    /\ IF ok
         THEN Goto(t, "ctor_load") /\ UNCHANGED err
         ELSE ctor_throw(t)
    /\ UNCHANGED << envVars, initVars, pathVars, gilHold, self,
                    load_neuropod, outputs, brVars, mapVars, cntVars,
                    ubVars >>

\* neuropod_ = make_unique<py::object>(load_neuropod(local_path));
ctor_load(t, ok) ==
    /\ Running
    /\ pc[t] = "ctor_load"
    /\ IF ok
         THEN /\ neuropod_' = [neuropod_ EXCEPT ![self[t].b] = "neuropod"]
              /\ acq' = [acq EXCEPT ![self[t].b].model = @ + 1]
              /\ handleLog' = [handleLog EXCEPT ![self[t].b].acquired =
                                  Append(@, "model")]
              /\ Touch(t, {"ctor:load_neuropod:call", "ctor:neuropod_:create"})
              /\ Goto(t, "ctor_exit")
              /\ UNCHANGED err
         ELSE /\ ctor_throw(t)
              /\ Touch(t, {"ctor:load_neuropod:call"})
              /\ UNCHANGED << neuropod_, acq, handleLog >>
    /\ UNCHANGED << envVars, initVars, pathVars, gilHold, self,
                    load_neuropod, outputs, bstate,
                    maybe_convert_bindings_types_, rel, mapVars, cntVars >>

\* std::unique_ptr<py::object>::reset(): an unset pointer is left alone.
ResetCount(ptr, n) == IF ptr = "null" THEN n ELSE n + 1

ResetSites(ptr, site) == IF ptr = "null" THEN {} ELSE {site}

ResetLog(ptr, log, member) == IF ptr = "null" THEN log ELSE Append(log, member)

\* End of the constructor body: local_path and load_neuropod are destroyed,
\* then `gil`.
ctor_exit(t) ==
    /\ Running
    /\ pc[t] = "ctor_exit"
    /\ load_neuropod' = [load_neuropod EXCEPT ![t] = "null"]
    /\ Touch(t, {"ctor:load_neuropod:release"})
    /\ GilRelease(t)
    /\ bstate' = [bstate EXCEPT ![self[t].b] = "live"]
    /\ self' = [self EXCEPT ![t] = NoCall]
    /\ Goto(t, "idle")
    /\ UNCHANGED << envVars, initVars, pathVars, outputs, err, neuropod_,
                    maybe_convert_bindings_types_, acq, rel, handleLog,
                    mapVars, cntVars >>

\* Stack unwinding of the constructor body: the locals that were
\* constructed are destroyed in reverse order, `gil` last.
ctor_unwind(t) ==
    /\ Running
    /\ pc[t] = "ctor_unwind"
    /\ load_neuropod' = [load_neuropod EXCEPT ![t] = "null"]
    /\ Touch(t, ResetSites(load_neuropod[t], "ctor:load_neuropod:release"))
    /\ GilRelease(t)
    /\ Goto(t, "ctor_members")
    /\ UNCHANGED << envVars, initVars, pathVars, self, outputs, err, brVars,
                    mapVars, cntVars >>

\* After the body has unwound, the members of the partly constructed
\* object are destroyed (~PythonBridge itself does not run) and the
\* exception reaches the caller.
ctor_members(t) ==
    /\ Running
    /\ pc[t] = "ctor_members"
    /\ LET b == self[t].b
       IN  /\ rel' = [rel EXCEPT
                 ![b].model = ResetCount(neuropod_[b], @),
                 ![b].conv  = ResetCount(maybe_convert_bindings_types_[b], @)]
           /\ handleLog' = [handleLog EXCEPT ![b].released =
                 ResetLog(maybe_convert_bindings_types_[b],
                          ResetLog(neuropod_[b], @, "model"), "conv")]
           /\ neuropod_' = [neuropod_ EXCEPT ![b] = "null"]
           /\ maybe_convert_bindings_types_' =
                 [maybe_convert_bindings_types_ EXCEPT ![b] = "null"]
           /\ Touch(t,
                 ResetSites(neuropod_[b], "ctor_failed:neuropod_:release")
                 \cup ResetSites(maybe_convert_bindings_types_[b],
                        "ctor_failed:maybe_convert_bindings_types_:release"))
           /\ bstate' = [bstate EXCEPT ![b] = "failed"]
    /\ self' = [self EXCEPT ![t] = NoCall]
    /\ Goto(t, "idle")
    /\ UNCHANGED << envVars, initVars, pathVars, gilHold, load_neuropod,
                    outputs, err, acq, mapVars, cntVars >>

\* ------------------------------------------ PythonBridge::~PythonBridge
\* A bridge or map is in use while some thread is inside a call on it.
BridgeInUse(b) == \E t \in Threads : pc[t] # "idle" /\ self[t].b = b
MapInUse(m)    == \E t \in Threads : pc[t] # "idle" /\ self[t].m = m

\* The owner destroys a constructed bridge that no call is using.
dtor_begin(t, b) ==
    /\ Call(t)
    /\ bstate[b] = "live"
    /\ ~BridgeInUse(b)
    /\ bstate' = [bstate EXCEPT ![b] = "destroying"]
    /\ self' = [self EXCEPT ![t] = [NoCall EXCEPT !.b = b]]
    /\ err' = [err EXCEPT ![t] = "none"]
    /\ Goto(t, "dtor_gil")
    /\ UNCHANGED << envVars, initVars, pathVars, gilHold, load_neuropod,
                    outputs, neuropod_, maybe_convert_bindings_types_, acq,
                    rel, handleLog, mapVars, nseals, ubVars >>

\* py::gil_scoped_acquire gil;
dtor_gil_acquire(t) ==
    /\ Running
    /\ pc[t] = "dtor_gil"
    /\ GilAcquire(t)
    /\ Goto(t, "dtor_reset_convert")
    /\ UNCHANGED << envVars, initVars, pathVars, self, load_neuropod,
                    outputs, err, brVars, mapVars, cntVars, ubVars >>

\* Faulty variant: the first reset of the destructor is applied to the model
\* handle, so the helper handle is never released.
dtor_reset_convert_ResetsModel(t) ==
    /\ Running
    /\ pc[t] = "dtor_reset_convert"
    /\ LET b == self[t].b
       IN  /\ rel' = [rel EXCEPT ![b].model = ResetCount(neuropod_[b], @)]
           /\ handleLog' = [handleLog EXCEPT ![b].released =
                 ResetLog(neuropod_[b], @, "model")]
           /\ neuropod_' = [neuropod_ EXCEPT ![b] = "null"]
           /\ Touch(t, ResetSites(neuropod_[b], "dtor:neuropod_:release"))
    /\ Goto(t, "dtor_reset_neuropod")
    /\ UNCHANGED << envVars, initVars, pathVars, gilHold, self,
                    load_neuropod, outputs, err, bstate,
                    maybe_convert_bindings_types_, acq, mapVars, cntVars >>

\* maybe_convert_bindings_types_.reset();
dtor_reset_convert(t) ==
    /\ Running
    /\ pc[t] = "dtor_reset_convert"
    /\ LET b == self[t].b
       IN  /\ rel' = [rel EXCEPT ![b].conv =
                        ResetCount(maybe_convert_bindings_types_[b], @)]
           /\ handleLog' = [handleLog EXCEPT ![b].released =
                 ResetLog(maybe_convert_bindings_types_[b], @, "conv")]
           /\ maybe_convert_bindings_types_' =
                 [maybe_convert_bindings_types_ EXCEPT ![b] = "null"]
           /\ Touch(t, ResetSites(maybe_convert_bindings_types_[b],
                        "dtor:maybe_convert_bindings_types_:release"))
    /\ Goto(t, "dtor_reset_neuropod")
    /\ UNCHANGED << envVars, initVars, pathVars, gilHold, self,
                    load_neuropod, outputs, err, bstate, neuropod_, acq,
                    mapVars, cntVars >>

\* neuropod_.reset(); then `gil` goes out of scope
dtor_reset_neuropod(t) ==
    /\ Running
    /\ pc[t] = "dtor_reset_neuropod"
    /\ LET b == self[t].b
       IN  /\ rel' = [rel EXCEPT ![b].model = ResetCount(neuropod_[b], @)]
           /\ handleLog' = [handleLog EXCEPT ![b].released =
                 ResetLog(neuropod_[b], @, "model")]
           /\ neuropod_' = [neuropod_ EXCEPT ![b] = "null"]
           /\ Touch(t, ResetSites(neuropod_[b], "dtor:neuropod_:release"))
           /\ bstate' = [bstate EXCEPT ![b] = "dead"]
    /\ GilRelease(t)
    /\ self' = [self EXCEPT ![t] = NoCall]
    /\ Goto(t, "idle")
    /\ UNCHANGED << envVars, initVars, pathVars, load_neuropod, outputs,
                    err, maybe_convert_bindings_types_, acq, mapVars,
                    cntVars >>

\* ------------------------------------------------- SealedPythonValueMap
\* tensor_to_numpy (python_bindings.hh) knows these element types and
\* raises UnsupportedType for any other.
Supported(dtype) == dtype \in {"float32", "string"}

NumpyDtype(dtype) == IF dtype = "float32" THEN "np.float32" ELSE "np.str_"

\* The fresh numpy array tensor_to_numpy builds for a tensor.
tensor_to_numpy(item, id) ==
    [id |-> id, dtype |-> NumpyDtype(item.dtype), data |-> item.data]

\* The numpy arrays a dict refers to.
ArrIds(dict) == {e.arr.id : e \in dict}

\* A dict that changes from `before` to `after` drops its reference to
\* every array it no longer refers to.
DropArrays(before, after) ==
    [i \in DOMAIN arrReleased |->
        IF i \in ArrIds(before) \ ArrIds(after)
          THEN arrReleased[i] + 1 ELSE arrReleased[i]]

\* PythonBridge::get_sealed_map: make_unique<SealedPythonValueMap>(), whose
\* constructor creates the py::dict.  No gil_scoped_acquire is taken.
get_sealed_map(t, m) ==
    /\ Call(t)
    /\ m \in NextFresh(mstate, Maps)
    /\ mstate' = [mstate EXCEPT ![m] = "live"]
    /\ out' = [out EXCEPT ![m] = {}]
    /\ Touch(t, {"get_sealed_map:out:create"})
    /\ err' = [err EXCEPT ![t] = "none"]
    /\ UNCHANGED << envVars, initVars, pathVars, gilHold, pc, self,
                    load_neuropod, outputs, brVars, handed, sealLog,
                    arrReleased, nseals >>

\* A caller starts seal(name, item) on a map it keeps alive.
seal_begin(t, m, name, item) ==
    /\ Call(t)
    /\ mstate[m] = "live"
    /\ nseals < MaxSeals
    /\ item \in Tensors(nseals + 1)
    /\ nseals' = nseals + 1
    /\ self' = [self EXCEPT ![t] = [NoCall EXCEPT !.m = m, !.name = name,
                                       !.item = item, !.id = nseals + 1]]
    /\ err' = [err EXCEPT ![t] = "none"]
    /\ Goto(t, "seal_gil")
    /\ UNCHANGED << envVars, initVars, pathVars, gilHold, load_neuropod,
                    outputs, brVars, mapVars, ubVars >>

\* py::gil_scoped_acquire gil;
seal_gil_acquire(t) ==
    /\ Running
    /\ pc[t] = "seal_gil"
    /\ GilAcquire(t)
    /\ Goto(t, "seal_assign")
    /\ UNCHANGED << envVars, initVars, pathVars, self, load_neuropod,
                    outputs, err, brVars, mapVars, cntVars, ubVars >>

\* Faulty variant: an assignment that keeps the entry a key already has.
DictSetItem_KeepsOld(dict, name, arr) ==
    dict \cup {[name |-> name, arr |-> arr]}

\* (*out)[name] = arr  (PyObject_SetItem: replaces the entry of that key)
DictSetItem(dict, name, arr) ==
    {e \in dict : e.name # name} \cup {[name |-> name, arr |-> arr]}

\* Faulty variant: the key is inserted, with an empty value, before the
\* conversion runs (what std::map's operator[] would do).
SealedDict_InsertsFirst(dict, name, item, id) ==
    IF Supported(item.dtype)
      THEN DictSetItem(dict, name, tensor_to_numpy(item, id))
      ELSE DictSetItem(dict, name, [id |-> 0, dtype |-> "none", data |-> 0])

\* The dict after `(*out)[name] = tensor_to_numpy(item)`: the item
\* accessor writes only when it is assigned, so a conversion that raises
\* leaves the dict alone.
SealedDict(dict, name, item, id) ==
    IF Supported(item.dtype)
      THEN DictSetItem(dict, name, tensor_to_numpy(item, id))
      ELSE dict

\* (*out)[name.c_str()] = tensor_to_numpy(...); then `gil` leaves scope.
seal_assign(t) ==
    /\ Running
    /\ pc[t] = "seal_assign"
    /\ LET m == self[t].m
           item == self[t].item
       IN  /\ out' = [out EXCEPT ![m] =
                        SealedDict(@, self[t].name, item, self[t].id)]
           /\ arrReleased' = DropArrays(out[m],
                        SealedDict(out[m], self[t].name, item, self[t].id))
           /\ IF Supported(item.dtype)
             THEN /\ sealLog' = [sealLog EXCEPT ![m] =
                        Append(@, [name |-> self[t].name, item |-> item])]
                  /\ Touch(t, {"seal:out:read", "seal:array:create"})
                  /\ UNCHANGED err
             ELSE /\ err' = [err EXCEPT ![t] = "UnsupportedType"]
                  /\ Touch(t, {"seal:out:read"})
                  /\ UNCHANGED sealLog
    /\ GilRelease(t)
    /\ self' = [self EXCEPT ![t] = NoCall]
    /\ Goto(t, "idle")
    /\ UNCHANGED << envVars, initVars, pathVars, load_neuropod, outputs,
                    brVars, mstate, handed, cntVars >>

\* The owner destroys a map that no call is using.
map_dtor_begin(t, m) ==
    /\ Call(t)
    /\ mstate[m] = "live"
    /\ ~MapInUse(m)
    /\ mstate' = [mstate EXCEPT ![m] = "destroying"]
    /\ self' = [self EXCEPT ![t] = [NoCall EXCEPT !.m = m]]
    /\ err' = [err EXCEPT ![t] = "none"]
    /\ Goto(t, "map_dtor_gil")
    /\ UNCHANGED << envVars, initVars, pathVars, gilHold, load_neuropod,
                    outputs, brVars, out, handed, sealLog, arrReleased,
                    nseals, ubVars >>

\* ~SealedPythonValueMap: py::gil_scoped_acquire gil;
map_dtor_gil_acquire(t) ==
    /\ Running
    /\ pc[t] = "map_dtor_gil"
    /\ GilAcquire(t)
    /\ Goto(t, "map_dtor_reset")
    /\ UNCHANGED << envVars, initVars, pathVars, self, load_neuropod,
                    outputs, err, brVars, mapVars, cntVars, ubVars >>

\* Faulty variant: out.release() in place of out.reset(): the pointer is
\* given up and the dict, with its array references, is never released.
map_dtor_reset_Leaks(t) ==
    /\ Running
    /\ pc[t] = "map_dtor_reset"
    /\ out' = [out EXCEPT ![self[t].m] = {}]
    /\ mstate' = [mstate EXCEPT ![self[t].m] = "destroyed"]
    /\ GilRelease(t)
    /\ self' = [self EXCEPT ![t] = NoCall]
    /\ Goto(t, "idle")
    /\ UNCHANGED << envVars, initVars, pathVars, load_neuropod, outputs,
                    err, brVars, handed, sealLog, arrReleased, cntVars,
                    ubVars >>

\* out.reset(); then `gil` leaves scope
map_dtor_reset(t) ==
    /\ Running
    /\ pc[t] = "map_dtor_reset"
    /\ out' = [out EXCEPT ![self[t].m] = {}]
    /\ arrReleased' = DropArrays(out[self[t].m], {})
    /\ mstate' = [mstate EXCEPT ![self[t].m] = "destroyed"]
    /\ Touch(t, {"map_dtor:out:release"})
    /\ GilRelease(t)
    /\ self' = [self EXCEPT ![t] = NoCall]
    /\ Goto(t, "idle")
    /\ UNCHANGED << envVars, initVars, pathVars, load_neuropod, outputs,
                    err, brVars, handed, sealLog, cntVars >>

\* ------------------------------------------ PythonBridge::infer_internal
\* A caller passes map m to infer on bridge b; both are alive.
infer_begin(t, b, m) ==
    /\ Call(t)
    /\ bstate[b] = "live"
    /\ mstate[m] = "live"
    /\ handed' = [handed EXCEPT ![m] = IF @ < 0 THEN nseals ELSE @]
    /\ self' = [self EXCEPT ![t] = [NoCall EXCEPT !.b = b, !.m = m]]
    /\ err' = [err EXCEPT ![t] = "none"]
    /\ Goto(t, "infer_gil")
    /\ UNCHANGED << envVars, initVars, pathVars, gilHold, load_neuropod,
                    outputs, brVars, mstate, out, sealLog, arrReleased,
                    nseals, ubVars >>

\* py::gil_scoped_acquire gil;
infer_gil_acquire(t) ==
    /\ Running
    /\ pc[t] = "infer_gil"
    /\ GilAcquire(t)
    /\ Goto(t, "infer_call")
    /\ UNCHANGED << envVars, initVars, pathVars, self, load_neuropod,
                    outputs, err, brVars, mapVars, cntVars, ubVars >>

\* A statement of infer_internal raised: leave the body by exception.
infer_throw(t) ==
    /\ Goto(t, "infer_unwind")
    /\ err' = [err EXCEPT ![t] = "InferenceFailure"]

\* py::dict model_outputs_raw = neuropod_->attr("infer")(model_inputs)...
infer_call(t, ok) ==
    /\ Running
    /\ pc[t] = "infer_call"
    /\ Touch(t, {"infer:neuropod_:read", "infer:out:read"})
    /\ IF ok
         THEN /\ outputs' = [outputs EXCEPT ![t].raw = "model_outputs_raw"]
              /\ Goto(t, "infer_convert_types")
              /\ UNCHANGED err
         ELSE /\ infer_throw(t)
              /\ UNCHANGED outputs
    /\ UNCHANGED << envVars, initVars, pathVars, gilHold, self,
                    load_neuropod, brVars, mapVars, cntVars >>

\* py::dict model_outputs = (*maybe_convert_bindings_types_)(raw)...
infer_convert_types(t, ok) ==
    /\ Running
    /\ pc[t] = "infer_convert_types"
    /\ Touch(t, {"infer:maybe_convert_bindings_types_:read"})
    /\ IF ok
         THEN /\ outputs' = [outputs EXCEPT ![t].coerced = "model_outputs"]
              /\ Goto(t, "infer_from_numpy")
              /\ UNCHANGED err
         ELSE /\ infer_throw(t)
              /\ UNCHANGED outputs
    /\ UNCHANGED << envVars, initVars, pathVars, gilHold, self,
                    load_neuropod, brVars, mapVars, cntVars >>

\* auto outputs = from_numpy_dict(*get_tensor_allocator(), model_outputs);
infer_from_numpy(t, ok) ==
    /\ Running
    /\ pc[t] = "infer_from_numpy"
    /\ Touch(t, {"infer:model_outputs:read"})
    /\ IF ok
         THEN Goto(t, "infer_exit") /\ UNCHANGED err
         ELSE infer_throw(t)
    /\ UNCHANGED << envVars, initVars, pathVars, gilHold, self,
                    load_neuropod, outputs, brVars, mapVars, cntVars >>

\* Faulty variant: the raw output mapping is kept past the call (its
\* reference is not dropped at scope exit), only the coerced one is released.
infer_leave_KeepsRaw(t) ==
    /\ outputs' = [outputs EXCEPT ![t].coerced = "null"]
    /\ Touch(t, ResetSites(outputs[t].coerced, "infer:model_outputs:release"))
    /\ GilRelease(t)
    /\ self' = [self EXCEPT ![t] = NoCall]
    /\ Goto(t, "idle")
    /\ UNCHANGED << envVars, initVars, pathVars, load_neuropod, err, brVars,
                    mapVars, cntVars >>

\* Scope exit of infer_internal, by return or by exception: the py::dict
\* locals that exist are destroyed, then `gil`.
infer_leave(t) ==
    /\ outputs' = [outputs EXCEPT ![t] = NoOutputs]
    /\ Touch(t, ResetSites(outputs[t].coerced, "infer:model_outputs:release")
                \cup ResetSites(outputs[t].raw,
                                "infer:model_outputs_raw:release"))
    /\ GilRelease(t)
    /\ self' = [self EXCEPT ![t] = NoCall]
    /\ Goto(t, "idle")
    /\ UNCHANGED << envVars, initVars, pathVars, load_neuropod, err, brVars,
                    mapVars, cntVars >>

\* return stdx::make_unique<NeuropodValueMap>(std::move(outputs));
infer_exit(t) ==
    /\ Running
    /\ pc[t] = "infer_exit"
    /\ infer_leave(t)

\* Faulty variant: the lock is released by hand at the end of the body, so an
\* exception leaves it held.
infer_unwind_KeepsGil(t) ==
    /\ Running
    /\ pc[t] = "infer_unwind"
    /\ outputs' = [outputs EXCEPT ![t] = NoOutputs]
    /\ self' = [self EXCEPT ![t] = NoCall]
    /\ Goto(t, "idle")
    /\ UNCHANGED << envVars, initVars, pathVars, gilHold, load_neuropod,
                    err, brVars, mapVars, cntVars, ubVars >>

\* An exception leaves infer_internal.
infer_unwind(t) ==
    /\ Running
    /\ pc[t] = "infer_unwind"
    /\ infer_leave(t)

\* ------------------------------------------------------- specification
Next ==
    \/ StaticInit
    \/ \E t \in Threads, b \in Bridges :
            set_python_path_getenv(t, b, PathsOf(b))
    \/ \E t \in Threads : set_python_path_setenv(t)
    \/ \E t \in Threads : ctor_gil_acquire(t)
    \/ \E t \in Threads, ok \in BOOLEAN : ctor_import_loader(t, ok)
    \/ \E t \in Threads, ok \in BOOLEAN : ctor_import_dtype_utils(t, ok)
    \/ \E t \in Threads, ok \in BOOLEAN : ctor_ensure_local(t, ok)
    \/ \E t \in Threads, ok \in BOOLEAN : ctor_load(t, ok)
    \/ \E t \in Threads : ctor_exit(t)
    \/ \E t \in Threads : ctor_unwind(t)
    \/ \E t \in Threads : ctor_members(t)
    \/ \E t \in Threads, b \in Bridges : dtor_begin(t, b)
    \/ \E t \in Threads : dtor_gil_acquire(t)
    \/ \E t \in Threads : dtor_reset_convert(t)
    \/ \E t \in Threads : dtor_reset_neuropod(t)
    \/ \E t \in Threads, m \in Maps : get_sealed_map(t, m)
    \/ \E t \in Threads, m \in Maps, name \in Names,
          item \in Tensors(nseals + 1) :
            seal_begin(t, m, name, item)
    \/ \E t \in Threads : seal_gil_acquire(t)
    \/ \E t \in Threads : seal_assign(t)
    \/ \E t \in Threads, m \in Maps : map_dtor_begin(t, m)
    \/ \E t \in Threads : map_dtor_gil_acquire(t)
    \/ \E t \in Threads : map_dtor_reset(t)
    \/ \E t \in Threads, b \in Bridges, m \in Maps : infer_begin(t, b, m)
    \/ \E t \in Threads : infer_gil_acquire(t)
    \/ \E t \in Threads, ok \in BOOLEAN : infer_call(t, ok)
    \/ \E t \in Threads, ok \in BOOLEAN : infer_convert_types(t, ok)
    \/ \E t \in Threads, ok \in BOOLEAN : infer_from_numpy(t, ok)
    \/ \E t \in Threads : infer_exit(t)
    \/ \E t \in Threads : infer_unwind(t)

Spec == Init /\ [][Next]_vars

\* ------------------------------------------------- fair specification
\* The acquisition of the lock by a call of thread t.
LockAcquire(t) ==
    \/ ctor_gil_acquire(t)
    \/ dtor_gil_acquire(t)
    \/ seal_gil_acquire(t)
    \/ map_dtor_gil_acquire(t)
    \/ infer_gil_acquire(t)

\* Any other step of a call thread t has begun: a statement that runs in
\* the calling thread and returns or raises.
CallStep(t) ==
    \/ set_python_path_setenv(t)
    \/ \E ok \in BOOLEAN : ctor_import_loader(t, ok)
    \/ \E ok \in BOOLEAN : ctor_import_dtype_utils(t, ok)
    \/ \E ok \in BOOLEAN : ctor_ensure_local(t, ok)
    \/ \E ok \in BOOLEAN : ctor_load(t, ok)
    \/ ctor_exit(t)
    \/ ctor_unwind(t)
    \/ ctor_members(t)
    \/ dtor_reset_convert(t)
    \/ dtor_reset_neuropod(t)
    \/ seal_assign(t)
    \/ map_dtor_reset(t)
    \/ \E ok \in BOOLEAN : infer_call(t, ok)
    \/ \E ok \in BOOLEAN : infer_convert_types(t, ok)
    \/ \E ok \in BOOLEAN : infer_from_numpy(t, ok)
    \/ infer_exit(t)
    \/ infer_unwind(t)

\* The process starts the interpreter itself, so the lock is contended only
\* by the calls of this component.
FairInit == Init /\ ~hosted

\* Every statement of a call terminates
\* (weak fairness of its steps), static initialisation runs, and the lock
\* is fair: a thread that can take it again and again does take it
\* (strong fairness of the acquisition).
FairSpec ==
    /\ FairInit
    /\ [][Next]_vars
    /\ WF_vars(StaticInit)
    /\ \A t \in Threads : WF_vars(CallStep(t)) /\ SF_vars(LockAcquire(t))

\* ================================================================ claims

\* The threads inside the critical section of infer_internal, between the
\* gil_scoped_acquire and the end of the scope.
InferCritical == {"infer_call", "infer_convert_types", "infer_from_numpy",
                  "infer_exit", "infer_unwind"}

InCritical == {t \in Threads : pc[t] \in InferCritical}

\* C1: however many threads call infer, on the same bridge or on different
\* ones, the number of threads inside the critical section of
\* infer_internal never exceeds 1.
C1_LockExclusivity == Cardinality(InCritical) <= 1

\* One thread is inside the critical section while another has called
\* infer and waits for the lock.
C1_Witness ==
    \E t, u \in Threads :
        /\ t # u
        /\ pc[t] \in InferCritical
        /\ pc[u] = "infer_gil"

\* C2: every creation, read or release of an interpreter-resident handle,
\* in every operation of the bridge, happens while the acting thread holds
\* the interpreter lock.
C2_HandlesTouchedUnderLock == unlocked = {}

\* C3: once a failed construction has propagated to the caller, the failed
\* bridge retains no model handle and no coercion-helper handle, each
\* handle it acquired was released exactly once, and the teardown of the
\* failed construction did not fault.
C3_FailedConstructionClean ==
    /\ \A b \in Bridges :
          bstate[b] = "failed" =>
              /\ neuropod_[b] = "null"
              /\ maybe_convert_bindings_types_[b] = "null"
              /\ rel[b] = acq[b]
    /\ fault \notin {"ctor_failed:neuropod_:release",
                     "ctor_failed:maybe_convert_bindings_types_:release"}

\* The names that were sealed into a map, and the last successful seal call
\* of a name.
SealedNames(log) == {log[i].name : i \in DOMAIN log}

LastSeal(log, name) ==
    log[CHOOSE i \in DOMAIN log :
            /\ log[i].name = name
            /\ \A j \in DOMAIN log : log[j].name = name => j <= i]

\* C4: after any sequence of seal calls a map holds exactly one entry per
\* distinct name that was sealed, and the entry is the conversion of the
\* tensor of the last seal call of that name.
C4_LastWriteWins ==
    \A m \in Maps :
        mstate[m] = "live" =>
            /\ {e.name : e \in out[m]} = SealedNames(sealLog[m])
            /\ Cardinality(out[m]) = Cardinality(SealedNames(sealLog[m]))
            /\ \A e \in out[m] :
                  LET item == LastSeal(sealLog[m], e.name).item
                  IN  /\ e.arr.data = item.data
                      /\ e.arr.dtype = NumpyDtype(item.dtype)

\* The same name was sealed twice and the map holds one entry.
C4_Witness ==
    \E m \in Maps :
        /\ mstate[m] = "live"
        /\ Len(sealLog[m]) = 2
        /\ sealLog[m][1].name = sealLog[m][2].name
        /\ Cardinality(out[m]) = 1

\* C5: a seal that fails because the element type is unsupported leaves
\* every map as it was, surfaces UnsupportedType, and leaves the calling
\* thread's hold on the interpreter lock as it was before the call.
C5_UnsupportedLeavesSetUnchanged ==
    [][\A t \in Threads :
          (/\ pc[t] = "seal_assign"
           /\ ~Supported(self[t].item.dtype)
           /\ pc'[t] = "idle")
          => /\ out' = out
             /\ err'[t] = "UnsupportedType"
             /\ gilHold'[t] = BaseHold(t)]_vars

\* A seal of a tensor of unsupported type holds the lock and is about to
\* raise, on a map that already has an entry under the same name.
C5_Witness ==
    \E t \in Threads :
        /\ pc[t] = "seal_assign"
        /\ ~Supported(self[t].item.dtype)
        /\ \E e \in out[self[t].m] : e.name = self[t].name

\* The value of the search path after the path lists `lists` were applied
\* one after the other to the original value.
RECURSIVE AppliedInTurn(_)
AppliedInTurn(lists) ==
    IF lists = << >>
      THEN (IF origPath.set THEN origPath.val ELSE << >>)
      ELSE LET n == Len(lists)
               dirs == lists[n]
           IN  [i \in 1 .. 2 * Len(dirs) |->
                    IF i % 2 = 0 THEN ":" ELSE dirs[(i + 1) \div 2][1]]
               \o AppliedInTurn(SubSeq(lists, 1, n - 1))

\* C6: when set_python_path calls run one after the other, the search path
\* holds the directories of the latest call in their order, then those of
\* the call before it, and so on, then the original value.
C6_PathsPrepended ==
    ~staleWrite =>
        IF applied = << >>
          THEN PYTHONPATH = origPath
          ELSE PYTHONPATH.set /\ PYTHONPATH.val = AppliedInTurn(applied)

\* Two calls ran in turn, with lists A = <<a>> and B = <<b, c>>, on the
\* original value "o".
C6_Witness ==
    /\ ~staleWrite
    /\ Len(applied) = 2
    /\ PYTHONPATH.val = <<"b", ":", "c", ":", "a", ":", "o">>

\* C7: when a statement of infer raises, the failure reaches the caller,
\* the bridge keeps the handles it had and stays alive, and the calling
\* thread's hold on the interpreter lock is what it was before the call, so
\* that a later infer on the bridge can take the lock.
C7_InferFailureLeavesBridgeUsable ==
    [][\A t \in Threads :
          (pc[t] = "infer_unwind" /\ pc'[t] = "idle")
          => /\ err'[t] = "InferenceFailure"
             /\ neuropod_' = neuropod_
             /\ maybe_convert_bindings_types_' = maybe_convert_bindings_types_
             /\ neuropod_'[self[t].b] # "null"
             /\ maybe_convert_bindings_types_'[self[t].b] # "null"
             /\ bstate'[self[t].b] = "live"
             /\ gilHold'[t] = BaseHold(t)
             /\ (BaseHold(t) = 0 => \A u \in Threads : GilFree(u)')]_vars

\* One thread's infer has failed and a later infer, of another thread, has
\* run through the critical section on the same bridge.
C7_Witness ==
    \E t, u \in Threads :
        /\ t # u
        /\ pc[u] = "idle"
        /\ err[u] = "InferenceFailure"
        /\ pc[t] = "infer_exit"
        /\ Cardinality({b \in Bridges : bstate[b] # "none"}) = 1

\* C8: the interpreter is started at most once per process, it is running
\* before any call into the component is made, and it is never shut down.
C8_StartedAtMostOnce ==
    /\ [](/\ interpStarts <= 1
          /\ (ncalls > 0 => pyInitialized /\ interpStarts = 1))
    /\ [][pyInitialized => pyInitialized']_vars
    /\ [][interpStarts' >= interpStarts]_vars

\* This component started the interpreter and, later, two bridges have
\* been constructed and one of them destroyed.
C8_Witness ==
    /\ ~hosted
    /\ interpStarts = 1
    /\ \E b, c \in Bridges : bstate[b] = "dead" /\ bstate[c] = "live"

\* C9: when the promotion of libpython fails, startup stops there:
\* PYTHONHOME is not set, the interpreter is not started, and no bridge
\* construction begins.
C9_PromotionFailureStopsStartup ==
    libpython = "null" =>
        /\ initState = "aborted"
        /\ PYTHONHOME = "unset"
        /\ ~pyInitialized
        /\ interpStarts = 0
        /\ gil_release = "null"
        /\ ncalls = 0
        /\ \A b \in Bridges : bstate[b] = "none"

\* Startup was aborted in a process that has VIRTUAL_ENV set.
C9_Witness == libpython = "null" /\ initState = "aborted" /\ VIRTUAL_ENV

\* A seal call on map m that was made after m was handed to infer.
LaterSeal(t, m) ==
    /\ pc[t] = "seal_assign"
    /\ self[t].m = m
    /\ handed[m] >= 0
    /\ self[t].id > handed[m]

\* C10: once a map has been handed to infer, its mapping does not change
\* for as long as the map lives: a step of infer leaves it alone, and so
\* does a step of a seal call made after the handing.
C10_SealedSetImmutable ==
    [][\A m \in Maps :
          (/\ handed[m] >= 0
           /\ mstate[m] = "live" /\ mstate'[m] = "live"
           /\ \E t \in Threads :
                 /\ pc'[t] # pc[t]
                 /\ LaterSeal(t, m) \/ (pc[t] \in InferCritical /\ self[t].m = m))
          => out'[m] = out[m]]_vars

\* The release sites of the interpreter objects infer_internal creates.
InferReleaseSites == {"infer:model_outputs:release",
                      "infer:model_outputs_raw:release"}

\* C11: when infer_internal has returned, normally or by exception, the
\* raw and the coerced output mapping it created are released; they exist
\* only while the calling thread holds the lock, so each release precedes
\* the lock release of the call; and a live bridge holds its model and
\* helper handles, each acquired once and not released, as before the call.
C11_InferReleasesOutputs ==
    /\ \A t \in Threads :
          /\ pc[t] \notin InferCritical => outputs[t] = NoOutputs
          /\ outputs[t] # NoOutputs => HoldsGil(t)
    /\ unlocked \cap InferReleaseSites = {}
    /\ \A b \in Bridges :
          bstate[b] = "live" =>
             /\ neuropod_[b] # "null"
             /\ maybe_convert_bindings_types_[b] # "null"
             /\ acq[b] = [conv |-> 1, model |-> 1]
             /\ rel[b] = NoCounts

\* An infer call has exited by exception and its thread is back outside
\* the call, a bridge still live.
C11_Witness ==
    \E t \in Threads :
        /\ pc[t] = "idle"
        /\ err[t] = "InferenceFailure"
        /\ outputs[t] = NoOutputs
        /\ gilHold[t] = BaseHold(t)
        /\ \E b \in Bridges : bstate[b] = "live"
        /\ \E m \in Maps : handed[m] >= 0

\* The release sites of ~PythonBridge.
DtorReleaseSites == {"dtor:maybe_convert_bindings_types_:release",
                     "dtor:neuropod_:release"}

\* C12: ~PythonBridge takes the lock before it releases anything, releases
\* the helper handle first and the model handle second, both under the
\* lock, and has released the lock when the bridge is dead; each stored
\* handle is released once, and a reset of an unset member releases
\* nothing.
C12_DestructionOrder ==
    /\ \A t \in Threads :
          LET b == self[t].b
          IN  /\ pc[t] = "dtor_gil" =>
                    /\ gilHold[t] = BaseHold(t)
                    /\ handleLog[b].released = << >>
              /\ pc[t] = "dtor_reset_convert" =>
                    /\ gilHold[t] = BaseHold(t) + 1
                    /\ handleLog[b].released = << >>
                    /\ maybe_convert_bindings_types_[b] # "null"
                    /\ neuropod_[b] # "null"
              /\ pc[t] = "dtor_reset_neuropod" =>
                    /\ gilHold[t] = BaseHold(t) + 1
                    /\ handleLog[b].released = << "conv" >>
                    /\ maybe_convert_bindings_types_[b] = "null"
                    /\ neuropod_[b] # "null"
    /\ \A b \in Bridges :
          /\ bstate[b] = "dead" =>
                /\ handleLog[b].released = << "conv", "model" >>
                /\ rel[b] = [conv |-> 1, model |-> 1]
                /\ maybe_convert_bindings_types_[b] = "null"
                /\ neuropod_[b] = "null"
                /\ \A t \in Threads :
                      pc[t] = "idle" => gilHold[t] = BaseHold(t)
          /\ rel[b].conv <= acq[b].conv
          /\ rel[b].model <= acq[b].model
    /\ unlocked \cap DtorReleaseSites = {}
    /\ fault \notin DtorReleaseSites

\* A destructor has released the helper handle and is about to release the
\* model handle.
C12_Witness ==
    \E t \in Threads :
        /\ pc[t] = "dtor_reset_neuropod"
        /\ handleLog[self[t].b].released = << "conv" >>

Reverse(s) == [i \in 1..Len(s) |-> s[Len(s) + 1 - i]]

\* C13 as stated: a destroyed bridge has released its helper and model
\* handles in the reverse of the order in which construction stored them.
C13_ReleaseReversesAcquisition ==
    \A b \in Bridges :
        bstate[b] = "dead" =>
            handleLog[b].released = Reverse(handleLog[b].acquired)

\* C13, amended: destruction releases the helper and model handles in the
\* same order in which construction stored them, helper first and model
\* second: the handle released first is the one stored first.
C13_ReleaseFollowsAcquisition ==
    /\ \A b \in Bridges :
          bstate[b] \in {"live", "destroying", "dead"} =>
              handleLog[b].acquired = << "conv", "model" >>
    /\ \A t \in Threads :
          pc[t] = "dtor_reset_neuropod" =>
              handleLog[self[t].b].released =
                  << Head(handleLog[self[t].b].acquired) >>
    /\ \A b \in Bridges :
          bstate[b] = "dead" =>
              handleLog[b].released = handleLog[b].acquired

\* A bridge was constructed and destroyed: two handles stored, two released.
C13_Witness ==
    \E b \in Bridges :
        /\ bstate[b] = "dead"
        /\ Len(handleLog[b].acquired) = 2
        /\ Len(handleLog[b].released) = 2

\* The path list was installed by set_python_path.
Applied(paths) == \E i \in 1..Len(applied) : applied[i] = paths

\* C14: a constructor applies its path list before it takes the lock, then
\* holds the lock once from the acquisition to the end of the body; under
\* the lock it resolves the load entry point, then stores the helper
\* handle, then calls ensure_local, then stores the model handle; the lock
\* is held across ensure_local and is released when the bridge is live.
C14_ConstructionOrder ==
    /\ \A t \in Threads :
          LET b    == self[t].b
              held == gilHold[t] = BaseHold(t) + 1
          IN  /\ pc[t] = "setenv" =>
                    /\ gilHold[t] = BaseHold(t)
                    /\ handleLog[b].acquired = << >>
              /\ pc[t] = "ctor_gil" =>
                    /\ gilHold[t] = BaseHold(t)
                    /\ Applied(self[t].paths)
                    /\ handleLog[b].acquired = << >>
              /\ pc[t] = "ctor_import_loader" =>
                    /\ held
                    /\ load_neuropod[t] = "null"
                    /\ handleLog[b].acquired = << >>
              /\ pc[t] = "ctor_import_dtype_utils" =>
                    /\ held
                    /\ load_neuropod[t] # "null"
                    /\ handleLog[b].acquired = << >>
              /\ pc[t] \in {"ctor_ensure_local", "ctor_load"} =>
                    /\ held
                    /\ load_neuropod[t] # "null"
                    /\ handleLog[b].acquired = << "conv" >>
              /\ pc[t] = "ctor_exit" =>
                    /\ held
                    /\ load_neuropod[t] # "null"
                    /\ handleLog[b].acquired = << "conv", "model" >>
    /\ \A b \in Bridges :
          bstate[b] = "live" =>
             /\ Applied(PathsOf(b))
             /\ handleLog[b].acquired = << "conv", "model" >>
             /\ \A t \in Threads :
                   pc[t] = "idle" => gilHold[t] = BaseHold(t)

\* A constructor is past ensure_local, about to load the model, while
\* another thread waits for the lock.
C14_Witness ==
    \E t, u \in Threads :
        /\ pc[t] = "ctor_load"
        /\ gilHold[t] = BaseHold(t) + 1
        /\ pc[u] \in {"ctor_gil", "seal_gil", "map_dtor_gil"}

\* The positions of a thread outside every gil_scoped_acquire scope: not in
\* a call, before the acquire of a call, or in the member teardown that
\* follows a constructor's unwinding.
OutsideLockScope == {"idle", "setenv", "ctor_gil", "ctor_members",
                     "dtor_gil", "seal_gil", "map_dtor_gil", "infer_gil"}

\* C15: a thread's hold on the lock is its hold from before the call
\* whenever it is outside the lock scope of a constructor, destructor,
\* seal, map destructor or infer, in particular after the call has ended
\* by return or by exception, and exactly one more inside the scope.
C15_LockBalanced ==
    \A t \in Threads :
        gilHold[t] = BaseHold(t) + (IF pc[t] \in OutsideLockScope THEN 0 ELSE 1)

\* A constructor has ended by exception and its thread is back outside
\* the call.
C15_Witness ==
    \E t \in Threads :
        /\ pc[t] = "idle"
        /\ err[t] = "ModelLoadFailure"
        /\ gilHold[t] = BaseHold(t)
        /\ \E b \in Bridges : bstate[b] = "failed"

\* C16: when maybe_initialize has started the interpreter, the lock that
\* starting it took is released when startup is done, the release token
\* is kept, and from then on the starting thread holds the lock only
\* inside the lock scope of one of its own calls, so it never stands in
\* the way of another thread's acquisition while outside them.
C16_StartupReleasesLock ==
    (~hosted /\ initState = "done") =>
        /\ gil_release = "token"
        /\ pc[MainThread] \in OutsideLockScope => gilHold[MainThread] = 0

\* The interpreter was started here, the starting thread is outside any
\* call, and another thread holds the lock.
C16_Witness ==
    /\ ~hosted
    /\ initState = "done"
    /\ gil_release = "token"
    /\ pc[MainThread] = "idle"
    /\ \E u \in Threads \ {MainThread} : HoldsGil(u)

\* C17: when the interpreter is already running at startup, maybe_initialize
\* changes nothing: no dlopen is tried, PYTHONHOME is not written, the
\* interpreter is not started a second time, no gil_scoped_release is
\* created, startup does not stop the process, and the calling thread's
\* hold on the lock is what it was.
C17_StartupNoOpWhenRunning ==
    hosted =>
        /\ initState \in {"pending", "done"}
        /\ pyInitialized
        /\ libpython = "untried"
        /\ PYTHONHOME = "unset"
        /\ interpStarts = 1
        /\ gil_release = "null"
        /\ pc[MainThread] \in OutsideLockScope => gilHold[MainThread] = 1

\* Startup has run in a process whose interpreter was already running and
\* which has a virtualenv set.
C17_Witness ==
    /\ hosted
    /\ initState = "done"
    /\ VIRTUAL_ENV
    /\ PYTHONHOME = "unset"

\* The numpy arrays the seal calls on map m have stored in it.
SealedArrays(m) == {sealLog[m][i].item.data : i \in 1..Len(sealLog[m])}

\* C18: ~SealedPythonValueMap, whatever was done with the map before,
\* releases under the lock: a destroyed map holds nothing, its reference
\* to every array sealed into it has been dropped exactly once, no
\* reference is dropped twice or while the map still holds the array, and
\* the lock is given back when the destructor is done.
C18_MapDestructionReleases ==
    /\ \A t \in Threads :
          pc[t] = "map_dtor_reset" =>
              /\ gilHold[t] = BaseHold(t) + 1
              /\ mstate[self[t].m] = "destroying"
    /\ \A m \in Maps :
          /\ mstate[m] = "destroyed" =>
                /\ out[m] = {}
                /\ \A i \in SealedArrays(m) : arrReleased[i] = 1
                /\ \A t \in Threads :
                      pc[t] = "idle" => gilHold[t] = BaseHold(t)
          /\ \A i \in ArrIds(out[m]) : arrReleased[i] = 0
    /\ \A i \in DOMAIN arrReleased : arrReleased[i] <= 1
    /\ "map_dtor:out:release" \notin unlocked
    /\ fault # "map_dtor:out:release"

\* A map was destroyed after two seals and without ever being passed to
\* infer.
C18_Witness ==
    \E m \in Maps :
        /\ mstate[m] = "destroyed"
        /\ Len(sealLog[m]) = 2
        /\ handed[m] < 0

\* The original value of the search path, as characters.
OrigValue == IF origPath.set THEN origPath.val ELSE << >>

\* C19: whichever way the set_python_path calls of concurrent constructors
\* interleave, the search path holds every directory of every list that
\* was applied, followed by the original value.
C19_NoLostUpdate ==
    applied # << >> =>
        LET val == PYTHONPATH.val
        IN  /\ \A k \in 1..Len(applied) :
                  \A j \in 1..Len(applied[k]) :
                      \E i \in 1..Len(val) : val[i] = applied[k][j][1]
            /\ Len(val) >= Len(OrigValue)
            /\ SubSeq(val, Len(val) - Len(OrigValue) + 1, Len(val)) = OrigValue

\* C20: with a fair lock and statements that terminate, a thread that has
\* started a construction, destruction, seal, map destruction or infer
\* takes the lock and gets to the end of the call.
C20_EveryCallCompletes ==
    \A t \in Threads : (pc[t] # "idle") ~> (pc[t] = "idle")

\* The lock discipline on its own: a call that does not reach its end was
\* cut short by a crash of the process, never by waiting for the lock.
CompletesUnlessCrashed ==
    \A t \in Threads : (pc[t] # "idle") ~> (pc[t] = "idle" \/ fault # "none")

====
